---- MODULE Spec2Model ----
(***************************************************************************)
(* Model of libtatlin/gcodeparser2.py: GcodeLexer (load, split_lines,      *)
(* scan, scan_line, split_comment, scan_args, is_blank) and GcodeParser    *)
(* (load, parse, set_flags, command_coords, is_new_layer).                 *)
(*                                                                         *)
(* Text.  A text is a sequence of items [k, h, t]; the text of an item is  *)
(* its first character h followed by the rest t (the code looks at arg[0]  *)
(* and arg[1:]).  Kinds: "tok" a run of non-blank characters delimited by  *)
(* blanks, "ws" a run of blanks, "frag" a run that starts with ';' or '('  *)
(* (a comment opener), "eol" one '\r' or '\n' character.                   *)
(*                                                                         *)
(* Numbers.  A float is an integer count of 0.05 units (1.0 is 20), so the *)
(* layer threshold 0.1 is 2.  An optional float is [none, v].              *)
(***************************************************************************)
EXTENDS Integers, Sequences, FiniteSets, TLC

VARIABLES content, lines, line_no, current_line, src, e_len, flags,
          pc, idx, layers, movements, result, loaded, parses

vars == <<content, lines, line_no, current_line, src, e_len, flags,
          pc, idx, layers, movements, result, loaded, parses>>

\* ---------------------------------------------------------------- bounds
MaxLines == 3
MaxItems == 4
MaxTextLines == 3
MaxParses == 2

\* ---------------------------------------------------------------- values
None == [none |-> TRUE, v |-> 0]
Num(n) == [none |-> FALSE, v |-> n]
NoPoint == <<>>

Item(k, h, t) == [k |-> k, h |-> h, t |-> t]
Tok(h, t) == Item("tok", h, t)
Frag(h, t) == Item("frag", h, t)
WS == Item("ws", " ", "")
CR == Item("eol", "\r", "")
LF == Item("eol", "\n", "")

\* The strings float() accepts among the argument tails of the model, with
\* their value in 0.05 units.
FloatTable ==
  [t \in {"0", "0.05", "0.2", "1", "5.0", "7.5", "1200", "101", "103"} |->
     CASE t = "0" -> 0
       [] t = "0.05" -> 1
       [] t = "0.2" -> 4
       [] t = "1" -> 20
       [] t = "5.0" -> 100
       [] t = "7.5" -> 150
       [] t = "1200" -> 24000
       [] t = "101" -> 2020
       [] t = "103" -> 2060]

IsFloat(t) == t \in DOMAIN FloatTable
Float(t) == FloatTable[t]

\* Movement.FLAG_*
FLAG_PERIMETER == 1
FLAG_PERIMETER_OUTER == 2
FLAG_LOOP == 4
FLAG_SURROUND_LOOP == 8
FLAG_EXTRUDER_ON == 16

HasFlag(f, b) == (f \div b) % 2 = 1
\* f |= b and f &= ~b for a single bit b
FlagSet(f, b) == IF HasFlag(f, b) THEN f ELSE f + b
FlagClear(f, b) == IF HasFlag(f, b) THEN f - b ELSE f

\* GcodeParser.marker_*
marker_layer == <<"(", "<layer>">>
marker_perimeter_start == <<"(", "<perimeter>">>
marker_perimeter_end == <<"(", "</perimeter>)">>
marker_loop_start == <<"(", "<loop>">>
marker_loop_end == <<"(", "</loop>)">>
marker_surrounding_loop_start == <<"(", "<surroundingLoop>)">>
marker_surrounding_loop_end == <<"(", "</surroundingLoop>)">>
word_outer == <<"o", "uter">>

\* `s in comment`: the items are the units of text, and no marker is part of
\* the text of a different item.
Contains(comment, s) ==
  \E i \in 1..Len(comment) : comment[i].h = s[1] /\ comment[i].t = s[2]

\* ------------------------------------------------------------ GcodeLexer
\* content.replace('\r', '\n')
ReplaceCR(text) ==
  [i \in 1..Len(text) |-> IF text[i] = CR THEN LF ELSE text[i]]

\* text.replace('\n\n', '\n'): non-overlapping pairs, left to right
RECURSIVE ReplaceLFLF(_)
ReplaceLFLF(text) ==
  IF Len(text) = 0 THEN <<>>
  ELSE IF Len(text) >= 2 /\ text[1] = LF /\ text[2] = LF
       THEN <<LF>> \o ReplaceLFLF(SubSeq(text, 3, Len(text)))
       ELSE <<text[1]>> \o ReplaceLFLF(Tail(text))

\* text.split('\n')
RECURSIVE SplitLF(_, _)
SplitLF(text, cur) ==
  IF Len(text) = 0 THEN <<cur>>
  ELSE IF text[1] = LF
       THEN <<cur>> \o SplitLF(Tail(text), <<>>)
       ELSE SplitLF(Tail(text), Append(cur, text[1]))

split_lines(text) == SplitLF(ReplaceLFLF(ReplaceCR(text)), <<>>)

\* str.find of a one-character opener: the first item that starts with it
\* (0 when there is none; the code's -1)
Find(line, ch) ==
  IF \E i \in 1..Len(line) : line[i].h = ch
  THEN CHOOSE i \in 1..Len(line) :
         line[i].h = ch /\ \A j \in 1..(i - 1) : line[j].h # ch
  ELSE 0

\* split_comment that does not look for '(' once it found a ';'
split_comment_semi_only(line) ==
  LET idx_semi == Find(line, ";")
      idx_paren == Find(line, "(")
  IN IF idx_semi > 0
     THEN [command |-> SubSeq(line, 1, idx_semi - 1),
           comment |-> SubSeq(line, idx_semi, Len(line))]
     ELSE IF idx_paren > 0
     THEN [command |-> SubSeq(line, 1, idx_paren - 1),
           comment |-> SubSeq(line, idx_paren, Len(line))]
     ELSE [command |-> line, comment |-> <<>>]

split_comment(line) ==
  LET idx_semi == Find(line, ";")
      command1 == IF idx_semi > 0 THEN SubSeq(line, 1, idx_semi - 1) ELSE line
      comment1 == IF idx_semi > 0 THEN SubSeq(line, idx_semi, Len(line)) ELSE <<>>
      idx_paren == Find(command1, "(")
  IN IF idx_paren > 0
     THEN [command |-> SubSeq(command1, 1, idx_paren - 1),
           comment |-> SubSeq(command1, idx_paren, Len(command1)) \o comment1]
     ELSE [command |-> command1, comment |-> comment1]

\* command.split(): the blank-delimited runs, blanks dropped
Split(command) == SelectSeq(command, LAMBDA it : it.k # "ws")

EmptyDict == [k \in {} |-> None]
DictSet(d, k, val) ==
  [x \in (DOMAIN d) \cup {k} |-> IF x = k THEN val ELSE d[x]]

\* scan_args: [err, d, bad]; err is the GcodeArgumentError, bad the text it
\* carries, as a sequence of pieces: str(e) of float()'s ValueError names the
\* string float() was given, arg[1:]
RECURSIVE ScanArgsFrom(_, _)
ScanArgsFrom(args, d) ==
  IF Len(args) = 0 THEN [err |-> FALSE, d |-> d, bad |-> <<>>]
  ELSE LET arg == args[1]
       IN IF arg.t # ""
          THEN IF IsFloat(arg.t)
               THEN ScanArgsFrom(Tail(args), DictSet(d, arg.h, Num(Float(arg.t))))
               ELSE [err |-> TRUE, d |-> d, bad |-> <<arg.t>>]
          ELSE ScanArgsFrom(Tail(args), DictSet(d, arg.h, None))

scan_args(args) == ScanArgsFrom(args, EmptyDict)

NoWord == [h |-> "", t |-> ""]
Word(it) == [h |-> it.h, t |-> it.t]

\* scan_line: [err, bad, gcode, args, comment]
scan_line(line) ==
  LET cc == split_comment(line)
      parts == Split(cc.command)
  IN IF Len(parts) > 0
     THEN LET a == scan_args(Tail(parts))
          IN [err |-> a.err, bad |-> a.bad, gcode |-> Word(parts[1]),
              args |-> a.d, comment |-> cc.comment]
     ELSE [err |-> FALSE, bad |-> <<>>, gcode |-> NoWord,
           args |-> EmptyDict, comment |-> cc.comment]

is_blank(tokens) ==
  tokens.gcode = NoWord /\ DOMAIN tokens.args = {} /\ tokens.comment = <<>>

\* ----------------------------------------------------------- GcodeParser
G(t) == [h |-> "G", t |-> t]
M(t) == [h |-> "M", t |-> t]

\* the threshold 0.1 of is_new_layer, in 0.05 units
ZThreshold == 2

\* names bound at module level of gcodeparser2.py
ModuleGlobals ==
  {"time", "logging", "GcodeParserError", "GcodeArgumentError",
   "GcodeLexer", "Movement", "GcodeParser"}

\* the local names of parse() that are bound when the loop body builds a
\* Movement, with their values
ParseScope(command, dst, e, f) ==
  [n \in {"command", "gcode", "args", "comment", "dst", "e_len", "feedrate"} |->
     CASE n = "command" -> command
       [] n = "gcode" -> command.gcode
       [] n = "args" -> command.args
       [] n = "comment" -> command.comment
       [] n = "dst" -> dst
       [] n = "e_len" -> e
       [] n = "feedrate" -> f]

Movement(msrc, mdst, delta_e, feedrate, mflags) ==
  [src |-> msrc, dst |-> mdst, delta_e |-> delta_e,
   feedrate |-> feedrate, flags |-> mflags]

\* set_flags with `if` in place of every `elif`: each matching rule is applied
set_flags_every_match(f, command) ==
  LET comment == command.comment
      gcode == command.gcode
      f1 == IF Contains(comment, marker_loop_start) THEN FlagSet(f, FLAG_LOOP) ELSE f
      f2 == IF Contains(comment, marker_loop_end) THEN FlagClear(f1, FLAG_LOOP) ELSE f1
      f3 == IF Contains(comment, marker_perimeter_start)
            THEN IF Contains(comment, word_outer)
                 THEN FlagSet(FlagSet(f2, FLAG_PERIMETER), FLAG_PERIMETER_OUTER)
                 ELSE FlagSet(f2, FLAG_PERIMETER)
            ELSE f2
      f4 == IF Contains(comment, marker_perimeter_end)
            THEN FlagClear(FlagClear(f3, FLAG_PERIMETER), FLAG_PERIMETER_OUTER)
            ELSE f3
      f5 == IF Contains(comment, marker_surrounding_loop_start)
            THEN FlagSet(f4, FLAG_SURROUND_LOOP) ELSE f4
      f6 == IF Contains(comment, marker_surrounding_loop_end)
            THEN FlagClear(f5, FLAG_SURROUND_LOOP) ELSE f5
      f7 == IF gcode = M("101") THEN FlagSet(f6, FLAG_EXTRUDER_ON) ELSE f6
  IN IF gcode = M("103") THEN FlagClear(f7, FLAG_EXTRUDER_ON) ELSE f7

\* set_flags whose perimeter-start rule also fires on 'outer' alone
set_flags_outer_alone(f, command) ==
  LET comment == command.comment
      gcode == command.gcode
  IN IF Contains(comment, marker_loop_start)
       THEN FlagSet(f, FLAG_LOOP)
     ELSE IF Contains(comment, marker_loop_end)
       THEN FlagClear(f, FLAG_LOOP)
     ELSE IF Contains(comment, marker_perimeter_start) \/ Contains(comment, word_outer)
       THEN IF Contains(comment, word_outer)
            THEN FlagSet(FlagSet(f, FLAG_PERIMETER), FLAG_PERIMETER_OUTER)
            ELSE FlagSet(f, FLAG_PERIMETER)
     ELSE IF Contains(comment, marker_perimeter_end)
       THEN FlagClear(FlagClear(f, FLAG_PERIMETER), FLAG_PERIMETER_OUTER)
     ELSE IF Contains(comment, marker_surrounding_loop_start)
       THEN FlagSet(f, FLAG_SURROUND_LOOP)
     ELSE IF Contains(comment, marker_surrounding_loop_end)
       THEN FlagClear(f, FLAG_SURROUND_LOOP)
     ELSE IF gcode = M("101")
       THEN FlagSet(f, FLAG_EXTRUDER_ON)
     ELSE IF gcode = M("103")
       THEN FlagClear(f, FLAG_EXTRUDER_ON)
     ELSE f

\* set_flags whose perimeter-end rule clears FLAG_PERIMETER only
set_flags_end_keeps_outer(f, command) ==
  LET comment == command.comment
      gcode == command.gcode
  IN IF Contains(comment, marker_loop_start)
       THEN FlagSet(f, FLAG_LOOP)
     ELSE IF Contains(comment, marker_loop_end)
       THEN FlagClear(f, FLAG_LOOP)
     ELSE IF Contains(comment, marker_perimeter_start)
       THEN IF Contains(comment, word_outer)
            THEN FlagSet(FlagSet(f, FLAG_PERIMETER), FLAG_PERIMETER_OUTER)
            ELSE FlagSet(f, FLAG_PERIMETER)
     ELSE IF Contains(comment, marker_perimeter_end)
       THEN FlagClear(f, FLAG_PERIMETER)
     ELSE IF Contains(comment, marker_surrounding_loop_start)
       THEN FlagSet(f, FLAG_SURROUND_LOOP)
     ELSE IF Contains(comment, marker_surrounding_loop_end)
       THEN FlagClear(f, FLAG_SURROUND_LOOP)
     ELSE IF gcode = M("101")
       THEN FlagSet(f, FLAG_EXTRUDER_ON)
     ELSE IF gcode = M("103")
       THEN FlagClear(f, FLAG_EXTRUDER_ON)
     ELSE f

set_flags(f, command) ==
  LET comment == command.comment
      gcode == command.gcode
  IN IF Contains(comment, marker_loop_start)
       THEN FlagSet(f, FLAG_LOOP)
     ELSE IF Contains(comment, marker_loop_end)
       THEN FlagClear(f, FLAG_LOOP)
     ELSE IF Contains(comment, marker_perimeter_start)
       THEN IF Contains(comment, word_outer)
            THEN FlagSet(FlagSet(f, FLAG_PERIMETER), FLAG_PERIMETER_OUTER)
            ELSE FlagSet(f, FLAG_PERIMETER)
     ELSE IF Contains(comment, marker_perimeter_end)
       THEN FlagClear(FlagClear(f, FLAG_PERIMETER), FLAG_PERIMETER_OUTER)
     ELSE IF Contains(comment, marker_surrounding_loop_start)
       THEN FlagSet(f, FLAG_SURROUND_LOOP)
     ELSE IF Contains(comment, marker_surrounding_loop_end)
       THEN FlagClear(f, FLAG_SURROUND_LOOP)
     ELSE IF gcode = M("101")
       THEN FlagSet(f, FLAG_EXTRUDER_ON)
     ELSE IF gcode = M("103")
       THEN FlagClear(f, FLAG_EXTRUDER_ON)
     ELSE f

HasKeys(args, ks) == ks \subseteq DOMAIN args

\* command_coords: [exc, dst]; dst is NoPoint for the code's None
command_coords(command) ==
  IF command.gcode = G("1")
  THEN IF HasKeys(command.args, {"X", "Y", "Z"})
       THEN [exc |-> "", dst |-> <<command.args["X"], command.args["Y"],
                                   command.args["Z"]>>]
       ELSE [exc |-> "KeyError", dst |-> NoPoint]
  ELSE [exc |-> "", dst |-> NoPoint]

\* is_new_layer: "True", "False", or "TypeError" when a Z is None
is_new_layer(self_src, dst, gcode, comment) ==
  IF Contains(comment, marker_layer) THEN "True"
  ELSE IF gcode \in {G("1"), G("2"), G("3")}
       THEN IF dst[3].none \/ self_src[3].none THEN "TypeError"
            ELSE IF dst[3].v - self_src[3].v > ZThreshold THEN "True"
            ELSE "False"
       ELSE "False"

\* The body of the for loop of parse() for one command: the exception it
\* raises ("" for none) and the fields and locals it leaves.
Body(exc, s, e, f, ls, ms) ==
  [exc |-> exc, src |-> s, e_len |-> e, flags |-> f,
   layers |-> ls, movements |-> ms]

parse_body(command, s, e, f, ls, ms) ==
  LET cc == command_coords(command)
      dst == cc.dst
      args == command.args
  IN IF cc.exc # "" THEN Body(cc.exc, s, e, f, ls, ms)
     ELSE IF "E" \notin DOMAIN args THEN Body("KeyError", s, e, f, ls, ms)
     ELSE IF "F" \notin DOMAIN args THEN Body("KeyError", s, e, f, ls, ms)
     ELSE
       LET new_e == args["E"]
           feedrate == args["F"]
           f2 == set_flags(f, command)
           scope == ParseScope(command, dst, new_e, feedrate)
           s2 == IF dst # NoPoint THEN dst ELSE s
       IN IF s # NoPoint /\ dst # NoPoint /\ s # dst
          THEN IF "delta_e" \notin (DOMAIN scope) \cup ModuleGlobals
               THEN Body("NameError", s, e, f2, ls, ms)
               ELSE LET move == Movement(s, dst, scope["delta_e"], feedrate, f2)
                        ms2 == Append(ms, move)
                        nl == is_new_layer(s, dst, command.gcode, command.comment)
                    IN IF nl = "TypeError"
                         THEN Body("TypeError", s, e, f2, ls, ms2)
                       ELSE IF nl = "True"
                         THEN Body("", s2, new_e, f2, Append(ls, ms2), <<>>)
                       ELSE Body("", s2, new_e, f2, ls, ms2)
          ELSE Body("", s2, new_e, f2, ls, ms)

\* The end of parse(), after the loop: [exc, layers]
parse_end(ls, ms) ==
  LET ls2 == IF Len(ms) > 0 THEN Append(ls, ms) ELSE ls
  IN IF Len(ls2) < 1
     THEN [exc |-> IF "GcodeParseError" \in ModuleGlobals
                   THEN "GcodeParseError" ELSE "NameError",
           layers |-> ls2]
     ELSE [exc |-> "", layers |-> ls2]

\* ---------------------------------------------------------------- inputs
X(t) == Tok("X", t)
Y(t) == Tok("Y", t)
Z(t) == Tok("Z", t)
E(t) == Tok("E", t)
F(t) == Tok("F", t)
LayerMark == Frag("(", "<layer>")

\* The lines the parser is run on.
ParserLines ==
  { <<Tok("G", "1"), X("0"), Y("0"), Z("0"), E("5.0"), F("1200")>>,
    <<Tok("G", "1"), X("1"), Y("0"), Z("0"), E("7.5"), F("1200")>>,
    <<Tok("G", "1"), X("1"), Y("0"), Z("0.2"), E("7.5"), F("1200")>>,
    <<Tok("G", "1"), X("0"), Y("0"), Z("0.05"), E("7.5"), F("1200")>>,
    <<Tok("G", "1"), X("0"), Y("0"), Z("0"), E("5.0"), F("1200"), LayerMark>>,
    <<Tok("G", "1"), X("1"), Y("0"), Z("0"), E("7.5"), F("1200"), LayerMark>>,
    <<Tok("G", "1"), X("1"), Y("0"), Z("0"), E("7.5")>>,
    <<Tok("G", "1"), X("1"), Y("0"), Z("0"), F("1200")>>,
    <<Tok("G", "1"), X("1"), Y("0"), E("7.5"), F("1200")>>,
    <<Tok("M", "101"), E("5.0"), F("1200")>>,
    <<Tok("M", "101")>>,
    <<LayerMark>>,
    <<Frag(";", "text")>>,
    <<WS>>,
    <<Tok("G", "1"), X("1"), Y("0"), Z("0"), E("1.2.3"), F("1200")>> }

\* The lines of the texts that mix line terminators: an empty line, a
\* command the parser accepts, a command with a malformed argument.
TextLines ==
  { <<>>,
    <<Tok("M", "103"), E("0"), F("0")>>,
    <<Tok("G", "1"), E("1.2.3")>> }

Separators == { <<LF>>, <<CR>>, <<CR, LF>> }

RECURSIVE SeqsUpTo(_, _)
SeqsUpTo(S, n) ==
  IF n = 0 THEN { <<>> }
  ELSE LET shorter == SeqsUpTo(S, n - 1)
       IN shorter \cup { Append(q, x) : q \in { r \in shorter : Len(r) = n - 1 }, x \in S }

\* the lines ls joined by the separators seps (Len(seps) = Len(ls) - 1)
RECURSIVE Join(_, _)
Join(ls, seps) ==
  IF Len(ls) = 0 THEN <<>>
  ELSE IF Len(ls) = 1 THEN ls[1]
  ELSE ls[1] \o seps[1] \o Join(Tail(ls), Tail(seps))

ParserInputs ==
  { Join(ls, [i \in 1..(Len(ls) - 1) |-> <<LF>>]) : ls \in SeqsUpTo(ParserLines, MaxLines) }

TextInputs ==
  UNION { { Join(ls, seps) :
              seps \in { q \in SeqsUpTo(Separators, MaxTextLines - 1) : Len(q) = Len(ls) - 1 } } :
          ls \in SeqsUpTo(TextLines, MaxTextLines) \ { <<>> } }

Inputs == ParserInputs \cup TextInputs

\* The lines the flag state machine is run on: each command carries E and F,
\* which parse() reads before it calls set_flags (the last three do not reach
\* set_flags: a blank line, a malformed argument, a command without E).
Cmd(word) == <<word, E("0"), F("0")>>
Note(frag) == Cmd(Tok("G", "0")) \o <<Frag(frag[1], frag[2])>>
Outer == Tok(word_outer[1], word_outer[2])

FlagLines ==
  { Cmd(Tok("M", "101")),
    Cmd(Tok("M", "103")),
    Note(marker_loop_start),
    Note(marker_loop_end),
    Note(marker_perimeter_start),
    Note(marker_perimeter_start) \o <<Outer>>,
    Note(marker_perimeter_end),
    Note(marker_surrounding_loop_start),
    Note(marker_surrounding_loop_end),
    Note(marker_loop_start) \o <<Frag("(", "<perimeter>"), Outer>>,
    Cmd(Tok("M", "101")) \o <<Frag("(", "</perimeter>)")>>,
    Cmd(Tok("G", "0")) \o <<Frag(";", ""), Outer>>,
    <<WS>>,
    <<Tok("G", "0"), E("1.2.3")>>,
    <<Tok("M", "101")>> }

FlagInputs ==
  { Join(ls, [i \in 1..(Len(ls) - 1) |-> <<LF>>]) : ls \in SeqsUpTo(FlagLines, MaxLines) }

\* ------------------------------------------------------------ the program
NoResult == [kind |-> "none", what |-> <<>>, line_no |-> 0, line |-> <<>>, doc |-> <<>>]
Raised(kind, what, n, line) ==
  [kind |-> kind, what |-> what, line_no |-> n, line |-> line, doc |-> <<>>]
Returned(doc) ==
  [kind |-> "Document", what |-> <<>>, line_no |-> 0, line |-> <<>>, doc |-> doc]

\* GcodeLexer.__init__ and GcodeParser.__init__; line_no 0 and an empty
\* current_line stand for the None of the lexer's fields.  content is the
\* text the caller is going to load.
InitOn(texts) ==
  /\ content \in texts
  /\ lines = <<>>
  /\ line_no = 0
  /\ current_line = <<>>
  /\ src = NoPoint
  /\ e_len = Num(0)
  /\ flags = 0
  /\ pc = "idle"
  /\ idx = 0
  /\ layers = <<>>
  /\ movements = <<>>
  /\ result = NoResult
  /\ loaded = FALSE
  /\ parses = 0

Init == InitOn(Inputs)

\* GcodeParser.load(src) with a string: lexer.load, read_input, split_lines
Load ==
  /\ pc = "idle"
  /\ ~loaded
  /\ lines' = split_lines(content)
  /\ loaded' = TRUE
  /\ UNCHANGED <<content, line_no, current_line, src, e_len, flags, pc, idx,
                 layers, movements, result, parses>>

\* parse() is called: the locals are fresh and scan() starts at the first line
ParseStart ==
  /\ pc = "idle"
  /\ parses < MaxParses
  /\ pc' = "scan"
  /\ idx' = 0
  /\ layers' = <<>>
  /\ movements' = <<>>
  /\ result' = NoResult
  /\ parses' = parses + 1
  /\ UNCHANGED <<content, lines, line_no, current_line, src, e_len, flags, loaded>>

Scanning == pc = "scan" /\ idx < Len(lines)
NextLine == lines[idx + 1]
NextTokens == scan_line(NextLine)

\* scan(): a line whose tokens are blank is skipped
ScanBlank ==
  /\ Scanning
  /\ ~NextTokens.err
  /\ is_blank(NextTokens)
  /\ line_no' = idx + 1
  /\ current_line' = NextLine
  /\ idx' = idx + 1
  /\ UNCHANGED <<content, lines, src, e_len, flags, pc, layers, movements,
                 result, loaded, parses>>

\* scan(): scan_line raises GcodeArgumentError, scan() raises
\* GcodeParserError with line_no and current_line, and parse() ends
ScanError ==
  /\ Scanning
  /\ NextTokens.err
  /\ line_no' = idx + 1
  /\ current_line' = NextLine
  /\ result' = Raised("GcodeParserError", NextTokens.bad, idx + 1, NextLine)
  /\ pc' = "idle"
  /\ UNCHANGED <<content, lines, src, e_len, flags, idx, layers, movements,
                 loaded, parses>>

\* scan() yields a command and parse() runs the loop body on it
ParseCommand ==
  /\ Scanning
  /\ ~NextTokens.err
  /\ ~is_blank(NextTokens)
  /\ line_no' = idx + 1
  /\ current_line' = NextLine
  /\ LET b == parse_body(NextTokens, src, e_len, flags, layers, movements)
     IN /\ src' = b.src
        /\ e_len' = b.e_len
        /\ flags' = b.flags
        /\ layers' = b.layers
        /\ movements' = b.movements
        /\ IF b.exc = ""
           THEN /\ idx' = idx + 1
                /\ UNCHANGED <<pc, result>>
           ELSE /\ result' = Raised(b.exc, <<>>, 0, <<>>)
                /\ pc' = "idle"
                /\ UNCHANGED idx
  /\ UNCHANGED <<content, lines, loaded, parses>>

\* the lines are exhausted: the end of parse()
ParseEnd ==
  /\ pc = "scan"
  /\ idx = Len(lines)
  /\ LET r == parse_end(layers, movements)
     IN /\ layers' = r.layers
        /\ result' = IF r.exc = "" THEN Returned(r.layers)
                     ELSE Raised(r.exc, <<>>, 0, <<>>)
  /\ pc' = "idle"
  /\ UNCHANGED <<content, lines, line_no, current_line, src, e_len, flags,
                 idx, movements, loaded, parses>>

Next ==
  \/ Load
  \/ ParseStart
  \/ ScanBlank
  \/ ScanError
  \/ ParseCommand
  \/ ParseEnd

Spec == Init /\ [][Next]_vars

\* The one-line texts the lexer is run on: every sequence of at most MaxItems
\* of a command word, arguments with a valid, a malformed and an empty
\* remainder, a ';' and a '(' comment opener, and blanks.
LexItems ==
  { Tok("G", "1"), E("7.5"), E("1.2.3"), E(""), Frag(";", "c"), Frag("(", "c"), WS }
LexInputs == SeqsUpTo(LexItems, MaxItems)

InitLex == InitOn(LexInputs)
SpecLex == InitLex /\ [][Next]_vars

\* the program run on the texts of FlagInputs
InitFlags == InitOn(FlagInputs)
SpecFlags == InitFlags /\ [][Next]_vars

\* ------------------------------------------------- actors.py: GcodeModel
\* the Movement properties movement_color reads, as tests of the flag bits
extruder_on(f) == HasFlag(f, FLAG_EXTRUDER_ON)
is_loop(f) == HasFlag(f, FLAG_LOOP)
is_perimeter(f) == HasFlag(f, FLAG_PERIMETER)
is_perimeter_outer(f) == HasFlag(f, FLAG_PERIMETER_OUTER)

\* GcodeModel.movement_color: the key of self.colors
movement_color(f) ==
  IF ~extruder_on(f) THEN "gray"
  ELSE IF is_loop(f) THEN "yellow"
  ELSE IF is_perimeter(f) /\ is_perimeter_outer(f) THEN "cyan"
  ELSE IF is_perimeter(f) THEN "green"
  ELSE "red"

\* ---------------------------------------------------------------- claims
ParseErrors == {"GcodeParserError", "GcodeArgumentError"}

\* every Movement built so far in this parse, in order
RECURSIVE Concat(_)
Concat(ls) == IF Len(ls) = 0 THEN <<>> ELSE ls[1] \o Concat(Tail(ls))
Built(ls, ms) == Concat(ls) \o ms

\* the step consumes a command from the stream
TakesCommand == Scanning /\ ~NextTokens.err /\ ~is_blank(NextTokens)

\* the command is a linear move with all of X, Y, Z, each with a number
FullMove(c) ==
  /\ c.gcode = G("1")
  /\ {"X", "Y", "Z"} \subseteq DOMAIN c.args
  /\ \A k \in {"X", "Y", "Z"} : ~c.args[k].none
Dest(c) == <<c.args["X"], c.args["Y"], c.args["Z"]>>

\* the command is one for which parse() builds a Movement: position is
\* defined and differs from the destination (line 184)
MovesFrom(c, s) == FullMove(c) /\ s # NoPoint /\ s # Dest(c)

\* C1: parse() ends in one of two ways: it returns a Document with at least
\* one Layer, or it raises GcodeParserError (or GcodeArgumentError).
C1_TwoOutcomes ==
  /\ result.kind \in {"none", "Document"} \cup ParseErrors
  /\ result.kind = "Document" => Len(result.doc) >= 1

\* C3: when the stream is exhausted and no Layer was produced, parse() raises
\* GcodeParserError.
C3_ZeroLayersParseError ==
  [][(pc = "scan" /\ idx = Len(lines) /\ Len(layers) = 0 /\ Len(movements) = 0)
       => result'.kind = "GcodeParserError"]_vars

\* the lines of a text when '\r\n', '\r' and '\n' each end one line
RECURSIVE TrueSplit(_, _)
TrueSplit(text, cur) ==
  IF Len(text) = 0 THEN <<cur>>
  ELSE IF Len(text) >= 2 /\ text[1] = CR /\ text[2] = LF
       THEN <<cur>> \o TrueSplit(SubSeq(text, 3, Len(text)), <<>>)
  ELSE IF text[1] \in {CR, LF}
       THEN <<cur>> \o TrueSplit(Tail(text), <<>>)
  ELSE TrueSplit(Tail(text), Append(cur, text[1]))

\* the 1-based number, within the text, of the first line that does not
\* tokenize (0 when every line does)
FirstBadLine(text) ==
  LET tl == TrueSplit(text, <<>>)
      bad == { i \in 1..Len(tl) : scan_line(tl[i]).err }
  IN IF bad = {} THEN 0 ELSE CHOOSE i \in bad : \A j \in bad : i <= j

\* C4: when a line fails to tokenize, parse() raises GcodeParserError carrying
\* that line's 1-based number within the input text, and the line's text.
C4_ErrorNamesTheLine ==
  [][(Scanning /\ NextTokens.err)
       => /\ result'.kind = "GcodeParserError"
          /\ result'.line = NextLine
          /\ result'.line_no = FirstBadLine(content)]_vars

\* C5: with position defined, a G1 command with a full destination and the
\* layer-start marker in its comment closes the current Layer, whatever the
\* Z difference and also when the destination is the current position.
C5_MarkerClosesLayer ==
  [][(TakesCommand /\ FullMove(NextTokens) /\ src # NoPoint
        /\ Contains(NextTokens.comment, marker_layer))
       => Len(layers') = Len(layers) + 1]_vars

\* C6: a G1 command that moves and has no layer-start marker closes the
\* current Layer exactly when destination Z - previous Z > 0.1.
C6_ZJumpClosesLayer ==
  [][(TakesCommand /\ MovesFrom(NextTokens, src) /\ ~src[3].none
        /\ ~Contains(NextTokens.comment, marker_layer))
       => (Len(layers') = Len(layers) + 1
             <=> Dest(NextTokens)[3].v - src[3].v > ZThreshold)]_vars

\* C8: the Movement of a command with an E argument has extrusion-delta
\* E - last_extrusion (0 without an E argument), and a command without an E
\* argument leaves last_extrusion unchanged.
C8_ExtrusionDelta ==
  [][TakesCommand =>
       /\ (MovesFrom(NextTokens, src) /\ "F" \in DOMAIN NextTokens.args) =>
            LET b == Built(layers', movements')
            IN /\ Len(b) = Len(Built(layers, movements)) + 1
               /\ b[Len(b)].delta_e =
                    IF "E" \in DOMAIN NextTokens.args /\ ~NextTokens.args["E"].none
                    THEN NextTokens.args["E"].v - e_len.v ELSE 0
       /\ "E" \notin DOMAIN NextTokens.args => e_len' = e_len]_vars

\* C9: a motion command that omits F still produces its Movement and does
\* not make the parse fail.
C9_MissingFeedrate ==
  [][(TakesCommand /\ MovesFrom(NextTokens, src)
        /\ "E" \in DOMAIN NextTokens.args /\ "F" \notin DOMAIN NextTokens.args)
       => /\ result'.kind = "none"
          /\ Len(Built(layers', movements')) = Len(Built(layers, movements)) + 1]_vars

\* C10: every parse() call starts from the initial parser state: position
\* undefined, last_extrusion zero, all flags clear.
C10_ParseStartsFresh ==
  (pc = "scan" /\ idx = 0) => (src = NoPoint /\ e_len = Num(0) /\ flags = 0)

\* C11: a G1 command that lacks one of X, Y, Z supplies no destination: no
\* Movement, no Layer closed, position unchanged, and the parse goes on.
C11_PartialMoveSkipped ==
  [][(TakesCommand /\ NextTokens.gcode = G("1")
        /\ ~({"X", "Y", "Z"} \subseteq DOMAIN NextTokens.args)
        /\ {"E", "F"} \subseteq DOMAIN NextTokens.args)
       => /\ result'.kind = "none"
          /\ pc' = "scan" /\ idx' = idx + 1
          /\ src' = src
          /\ Built(layers', movements') = Built(layers, movements)
          /\ Len(layers') = Len(layers)]_vars

\* ----------------------------------------------------- flag transitions
AllFlags ==
  {FLAG_PERIMETER, FLAG_PERIMETER_OUTER, FLAG_LOOP, FLAG_SURROUND_LOOP,
   FLAG_EXTRUDER_ON}
BitsOf(f) == { b \in AllFlags : HasFlag(f, b) }

\* the eight rules of the transition table, in priority order
RuleMatches(i, c) ==
  CASE i = 1 -> Contains(c.comment, marker_loop_start)
    [] i = 2 -> Contains(c.comment, marker_loop_end)
    [] i = 3 -> Contains(c.comment, marker_perimeter_start)
    [] i = 4 -> Contains(c.comment, marker_perimeter_end)
    [] i = 5 -> Contains(c.comment, marker_surrounding_loop_start)
    [] i = 6 -> Contains(c.comment, marker_surrounding_loop_end)
    [] i = 7 -> c.gcode = M("101")
    [] i = 8 -> c.gcode = M("103")
FirstRule(c) ==
  LET matching == { i \in 1..8 : RuleMatches(i, c) }
  IN IF matching = {} THEN 0 ELSE CHOOSE i \in matching : \A j \in matching : i <= j
RuleSets(i, c) ==
  CASE i = 1 -> {FLAG_LOOP}
    [] i = 3 -> IF Contains(c.comment, word_outer)
                THEN {FLAG_PERIMETER, FLAG_PERIMETER_OUTER} ELSE {FLAG_PERIMETER}
    [] i = 5 -> {FLAG_SURROUND_LOOP}
    [] i = 7 -> {FLAG_EXTRUDER_ON}
    [] OTHER -> {}
RuleClears(i) ==
  CASE i = 2 -> {FLAG_LOOP}
    [] i = 4 -> {FLAG_PERIMETER, FLAG_PERIMETER_OUTER}
    [] i = 6 -> {FLAG_SURROUND_LOOP}
    [] i = 8 -> {FLAG_EXTRUDER_ON}
    [] OTHER -> {}
BitsAfter(f, c) ==
  (BitsOf(f) \cup RuleSets(FirstRule(c), c)) \ RuleClears(FirstRule(c))

C13_OuterOnlyWithPerimeter ==
  [][(~HasFlag(flags, FLAG_PERIMETER_OUTER) /\ HasFlag(flags', FLAG_PERIMETER_OUTER))
       => /\ TakesCommand
          /\ Contains(NextTokens.comment, marker_perimeter_start)
          /\ Contains(NextTokens.comment, word_outer)]_vars

\* C13 witness: PERIMETER_OUTER is set, and a later command with 'outer' in a
\* comment without the perimeter-start marker has been processed.
C13_Witness ==
  /\ HasFlag(flags, FLAG_PERIMETER_OUTER)
  /\ pc = "scan" /\ idx = 2
  /\ Contains(current_line, word_outer)
  /\ ~Contains(current_line, marker_perimeter_start)

\* the documented precedence: travel, loop, outer perimeter, perimeter, fill
DocumentedColor(f) ==
  IF ~HasFlag(f, FLAG_EXTRUDER_ON) THEN "gray"
  ELSE IF HasFlag(f, FLAG_LOOP) THEN "yellow"
  ELSE IF HasFlag(f, FLAG_PERIMETER_OUTER) THEN "cyan"
  ELSE IF HasFlag(f, FLAG_PERIMETER) THEN "green"
  ELSE "red"

\* C19: PERIMETER_OUTER is set only if PERIMETER is set, the flags stay within
\* 0..31, and so movement_color classifies the flags as the documented
\* precedence does.
C19_OuterImpliesPerimeter ==
  /\ flags \in 0..31
  /\ HasFlag(flags, FLAG_PERIMETER_OUTER) => HasFlag(flags, FLAG_PERIMETER)
  /\ movement_color(flags) = DocumentedColor(flags)

\* C19 witness: extruder on, perimeter and outer perimeter set, and a
\* perimeter-end command is the next to be processed.
C19_Witness ==
  /\ flags = FLAG_EXTRUDER_ON + FLAG_PERIMETER + FLAG_PERIMETER_OUTER
  /\ TakesCommand
  /\ Contains(NextTokens.comment, marker_perimeter_end)

\* ------------------------------------------------------------ the lexer
Openers == {";", "("}
\* the place of the first ';' or '(' of a line, Len(line) + 1 without one
FirstOpener(line) ==
  LET at == { i \in 1..Len(line) : line[i].h \in Openers }
  IN IF at = {} THEN Len(line) + 1 ELSE CHOOSE i \in at : \A j \in at : i <= j

\* C16: split_comment cuts the line at the first ';' or '(': the command is
\* the text before it and has neither character, the comment is the rest, the
\* two make up the line, and a line with neither has an empty comment.
C16_SplitAtFirstOpener ==
  line_no > 0 =>
    LET cc == split_comment(current_line)
        cut == FirstOpener(current_line)
    IN /\ cc.command = SubSeq(current_line, 1, cut - 1)
       /\ cc.comment = SubSeq(current_line, cut, Len(current_line))
       /\ \A i \in 1..Len(cc.command) : cc.command[i].h \notin Openers
       /\ cc.command \o cc.comment = current_line
       /\ (cut = Len(current_line) + 1) => cc.comment = <<>>

\* C16 witness: scan() tokenized a line with a command, then a '(' and later
\* a ';'.
C16_Witness ==
  /\ line_no > 0
  /\ Find(current_line, "(") > 1
  /\ Find(current_line, ";") > Find(current_line, "(")

\* the argument tokens of a line
ArgTokens(line) == Tail(Split(SubSeq(line, 1, FirstOpener(line) - 1)))
Malformed(a) == a.t # "" /\ ~IsFloat(a.t)
\* the text of a token, as pieces
TokenText(a) == <<a.h, a.t>>

\* C17: tokenizing fails exactly when an argument token has a non-empty
\* remainder that is not a float, the error carries that token's text, and a
\* token with an empty remainder maps its letter to an absent value.
C17_ArgumentError ==
  [][(Scanning /\ Len(Split(SubSeq(NextLine, 1, FirstOpener(NextLine) - 1))) > 0) =>
       LET args == ArgTokens(NextLine)
           bad == { i \in 1..Len(args) : Malformed(args[i]) }
       IN IF bad # {}
          THEN /\ result'.kind = "GcodeParserError"
               /\ result'.what = TokenText(args[CHOOSE i \in bad : \A j \in bad : i <= j])
          ELSE /\ result'.kind # "GcodeParserError"
               /\ \A i \in 1..Len(args) :
                    (args[i].t = "" /\ \A j \in (i + 1)..Len(args) : args[j].h # args[i].h)
                      => NextTokens.args[args[i].h] = None]_vars

\* the lines of a text when every run of '\r' and '\n' characters is one
\* separator
RECURSIVE RunSplit(_, _, _)
RunSplit(text, cur, inrun) ==
  IF Len(text) = 0 THEN <<cur>>
  ELSE IF text[1] \in {CR, LF}
       THEN IF inrun THEN RunSplit(Tail(text), cur, TRUE)
            ELSE <<cur>> \o RunSplit(Tail(text), <<>>, TRUE)
  ELSE RunSplit(Tail(text), Append(cur, text[1]), FALSE)

\* C18: '\r\n', '\r' and '\n' each separate two lines, and a run of two or
\* more separators produces no extra blank line.
C18_NoSpuriousBlankLine ==
  loaded => lines = RunSplit(content, <<>>, FALSE)

\* C20: path continuity within one parse: no Movement has source equal to
\* destination, the first destination-bearing command builds no Movement and
\* only defines position, and each Movement starts where the one before it
\* ended.
C20_PathContinuity ==
  [][TakesCommand =>
       LET b == Built(layers', movements')
       IN /\ \A i \in 1..Len(b) : b[i].src # b[i].dst
          /\ \A i \in 1..(Len(b) - 1) : b[i + 1].src = b[i].dst
          /\ (FullMove(NextTokens) /\ src = NoPoint)
               => /\ b = Built(layers, movements)
                  /\ src' = Dest(NextTokens)
                  /\ result'.kind = "none"]_vars

====
